---- MODULE Spec2Model ----
(***************************************************************************)
(* Monte Carlo channel simulator (simular_canal) and portfolio optimizer   *)
(* (otimizar_portfolio) of post_montecarlo/montecarlo_python_marketing.py. *)
(*                                                                         *)
(* Floating-point values are carried as exact rationals [n, d] in lowest   *)
(* terms; the one irrational operation, the square root inside pandas'     *)
(* std(), is rounded up to the next integer.  The random source is either  *)
(* unseeded (every variate is a free choice) or seeded (a deterministic    *)
(* congruential stream).                                                   *)
(***************************************************************************)
EXTENDS Integers, Sequences, FiniteSets

(* ------------------------------ bounds -------------------------------- *)
\* n_portfolios: the source fixes 1000 (line 164); the model runs this many.
NPortfolios == 2
\* n_simulacoes passed by otimizar_portfolio: the source fixes 1000 (line 178).
InnerDraws == 2
\* largest n_simulacoes of a direct simular_canal call.
MaxDraws == 2

(* ----------------------------- rationals ------------------------------ *)
Abs(x) == IF x < 0 THEN -x ELSE x

RECURSIVE GCD(_, _)
GCD(a, b) == IF b = 0 THEN a ELSE GCD(b, a % b)

\* The rational n/d (d # 0) in lowest terms with a positive denominator.
Rat(n, d) ==
    LET g == GCD(Abs(n), Abs(d))
        s == IF d < 0 THEN -1 ELSE 1
    IN  [n |-> (s * n) \div g, d |-> Abs(d) \div g]

RInt(k) == [n |-> k, d |-> 1]
Zero == RInt(0)
\* inf / nan: what a float division by zero leaves behind.
Undefined == [n |-> 0, d |-> 0]

RAdd(a, b) == Rat(a.n * b.d + b.n * a.d, a.d * b.d)
RSub(a, b) == Rat(a.n * b.d - b.n * a.d, a.d * b.d)
RMul(a, b) == Rat(a.n * b.n, a.d * b.d)
RDiv(a, b) == IF b.n = 0 \/ a.d = 0 \/ b.d = 0 THEN Undefined ELSE Rat(a.n * b.d, a.d * b.n)
RLt(a, b) == a.n * b.d < b.n * a.d
RLe(a, b) == a.n * b.d <= b.n * a.d

\* int(x): truncation toward zero.
Trunc(x) == IF x.n >= 0 THEN x.n \div x.d ELSE -((-x.n) \div x.d)

\* Python's max(lo, x): x only when it is greater than lo.
PyMax(lo, x) == IF RLt(lo, x) THEN x ELSE lo

\* Clip with the upper bound forgotten.
ClipLowOnly(x, lo, hi) == IF RLt(x, lo) THEN lo ELSE x

\* np.clip(x, lo, hi).
Clip(x, lo, hi) == IF RLt(x, lo) THEN lo ELSE IF RLt(hi, x) THEN hi ELSE x

(* --------------------------- random source ---------------------------- *)
\* A raw variate is an index 0..2: low tail, centre, high tail.
Raw == 0 .. 2

\* Standard normal variate of a raw index: -4 sigma, 0, +4 sigma.
ZOf(u) == IF u = 0 THEN -4 ELSE IF u = 1 THEN 0 ELSE 4

\* Standard gamma(1) variate of a raw index (always positive).
GammaOf(u) == IF u = 0 THEN 1 ELSE 2

\* One step of the seeded generator.
LcgNext(s) == (5 * s + 3) % 64
LcgOut(s) == (s \div 4) % 3

RECURSIVE LcgSkip(_, _)
LcgSkip(s, k) == IF k = 0 THEN s ELSE LcgSkip(LcgNext(s), k - 1)

\* Variates taken from a source the seed does not control.
VariatesUnseeded(r, k) == [1 .. k -> Raw]

\* The sequences of k raw variates generator r can produce next.
Variates(r, k) ==
    IF r.seeded
    THEN {[m \in 1 .. k |-> LcgOut(LcgSkip(r.state, m))]}
    ELSE [1 .. k -> Raw]

\* Generator r after k variates were consumed.
RngAfter(r, k) ==
    [r EXCEPT !.state = IF r.seeded THEN LcgSkip(r.state, k) ELSE r.state + k]

\* np.random.normal(loc, scale) on raw variate u.
Normal(loc, scale, u) == RAdd(loc, RMul(scale, RInt(ZOf(u))))

(* ------------------------- parameter tables --------------------------- *)
Row(canal, cpc, cpcd, ctr, ctrd, conv, convd, ticket, ticketd) ==
    [canal |-> canal,
     cpc_medio |-> cpc, cpc_desvio |-> cpcd,
     ctr_medio |-> ctr, ctr_desvio |-> ctrd,
     conversao_media |-> conv, conversao_desvio |-> convd,
     ticket_medio |-> ticket, ticket_desvio |-> ticketd]

\* Two channels that between them vary all four drivers past both clamps.
TWide ==
    << Row("X", Rat(1, 2), Rat(1, 4), Rat(1, 2), Rat(1, 4),
                Rat(1, 2), Zero, RInt(20), Zero),
       Row("Y", RInt(1), Zero, Rat(1, 2), Zero,
                Rat(1, 2), Rat(1, 4), RInt(20), RInt(5)) >>

\* One channel whose conversion rate varies.
TOne ==
    << Row("A", RInt(1), Zero, Rat(1, 2), Zero,
                Rat(1, 2), Rat(1, 4), RInt(20), Zero) >>

\* Channel A and a channel without variance.
TTwo ==
    << Row("A", RInt(1), Zero, Rat(1, 2), Zero,
                Rat(1, 2), Rat(1, 4), RInt(20), Zero),
       Row("B", Rat(1, 2), Zero, Rat(1, 2), Zero,
                RInt(1), Zero, RInt(10), Zero) >>

\* Inputs of direct simular_canal calls; "Z" is in no table.
SimNames == {"X", "Y", "Z"}
SimBudgets == {-5, 0, 5}
\* Inputs of otimizar_portfolio calls; 5000 is the declared default.
OptTables == {TOne, TTwo}
OptBudgets == {0, 2}
NSimArgs == {1, 5000}

(* --------------------------- simular_canal ---------------------------- *)
\* parametros[parametros['canal'] == nome_canal]: the matching rows, in order.
FilterRows(parametros, nome_canal) ==
    SelectSeq(parametros, LAMBDA r : r.canal = nome_canal)

\* One entry of the result arrays as np.zeros leaves it.
ZeroDraw ==
    [cpc |-> Zero, ctr |-> Zero, taxa_conversao |-> Zero, ticket_medio |-> Zero,
     cliques |-> 0, conversoes |-> 0, receita |-> Zero, roi |-> Zero, lucro |-> Zero]

SampleCpc(canal, u) == PyMax(Rat(1, 100), Normal(canal.cpc_medio, canal.cpc_desvio, u))
SampleCtr(canal, u) == Clip(Normal(canal.ctr_medio, canal.ctr_desvio, u), Rat(1, 1000), RInt(1))
SampleConversao(canal, u) ==
    Clip(Normal(canal.conversao_media, canal.conversao_desvio, u), Rat(1, 1000), RInt(1))
SampleTicket(canal, u) == PyMax(RInt(10), Normal(canal.ticket_medio, canal.ticket_desvio, u))

\* The ROI as a fraction instead of a percentage.
RoiFraction(lucro, budget) ==
    IF RLt(Zero, budget) THEN RDiv(lucro, budget) ELSE Zero

Roi(lucro, budget) ==
    IF RLt(Zero, budget) THEN RMul(RDiv(lucro, budget), RInt(100)) ELSE Zero

\* Lines 72-88: the metrics derived from one iteration's four samples.
\* (impressoes = int(cliques / ctr) is computed and dropped by the source.)
Metrics(cpc, ctr, conversao, ticket, budget) ==
    LET cliques == Trunc(RDiv(budget, cpc))
        conversoes == Trunc(RMul(RInt(cliques), conversao))
        receita == RMul(RInt(conversoes), ticket)
        lucro == RSub(receita, budget)
    IN  [cpc |-> cpc, ctr |-> ctr, taxa_conversao |-> conversao, ticket_medio |-> ticket,
         cliques |-> cliques, conversoes |-> conversoes, receita |-> receita,
         roi |-> Roi(lucro, budget), lucro |-> lucro]

(* ------------------------ statistics of a run ------------------------- *)
RECURSIVE SumSeq(_)
SumSeq(xs) == IF xs = <<>> THEN Zero ELSE RAdd(xs[1], SumSeq(Tail(xs)))

\* Series.mean().
Mean(xs) == RDiv(SumSeq(xs), RInt(Len(xs)))

RECURSIVE CeilSqrtFrom(_, _)
CeilSqrtFrom(x, s) == IF RLe(x, RInt(s * s)) THEN s ELSE CeilSqrtFrom(x, s + 1)

\* Square root of a non-negative rational, rounded up to an integer.
Sqrt(x) == IF x = Undefined THEN Undefined ELSE RInt(CeilSqrtFrom(x, 0))

\* Series.std(): the sample standard deviation (ddof = 1).
Std(xs) ==
    LET m == Mean(xs)
        sq == [k \in 1 .. Len(xs) |-> RMul(RSub(xs[k], m), RSub(xs[k], m))]
    IN  Sqrt(RDiv(SumSeq(sq), RInt(Len(xs) - 1)))

Column(df, f) == [k \in 1 .. Len(df) |-> df[k][f]]

(* ------------------------- otimizar_portfolio ------------------------- *)
\* np.random.dirichlet(np.ones(n_canais), size): rows of gamma variates,
\* each divided by its row sum.
RECURSIVE SumInts(_)
SumInts(xs) == IF xs = <<>> THEN 0 ELSE xs[1] + SumInts(Tail(xs))

\* The gamma variate left undivided.
NotNormalised(g, total) == RInt(g)

\* val * (1 / acc).
Normalise(g, total) == RMul(RInt(g), RDiv(RInt(1), RInt(total)))

Dirichlet(us, size, n_canais) ==
    [p \in 1 .. size |->
        LET row == [j \in 1 .. n_canais |-> GammaOf(us[(p - 1) * n_canais + j])]
        IN  [j \in 1 .. n_canais |-> Normalise(row[j], SumInts(row))]]

\* The ratio without its guard.
SharpeUnguarded(lucro_total, risco_total) == RDiv(lucro_total, risco_total)

SharpeRatio(lucro_total, risco_total) ==
    IF RLt(Zero, risco_total) THEN RDiv(lucro_total, risco_total) ELSE Zero

\* A tie replaces the best row so far: the last maximum wins.
KeepsLast(best, x) == RLe(best, x)

\* Whether a row that ties the best one so far replaces it.
KeepsFirst(best, x) == RLt(best, x)

\* Series.idxmax(): the position of the first maximum.
RECURSIVE IdxMaxFrom(_, _, _)
IdxMaxFrom(xs, k, best) ==
    IF k > Len(xs) THEN best
    ELSE IdxMaxFrom(xs, k + 1, IF KeepsFirst(xs[best], xs[k]) THEN k ELSE best)

IdxMax(xs) == IdxMaxFrom(xs, 2, 1)

(* ------------------------------- state -------------------------------- *)
VARIABLES
    pc,      \* where the program is: idle, sim_lookup, sim_loop, sim_ctr, sim_conversao,
             \* sim_ticket, sim_metrics, opt_chan, done, error
    caller,  \* who called simular_canal: "main" or "opt"
    call,    \* the arguments of the top-level call
    rng,     \* the random source
    rng0,    \* the random source when the top-level call started
    sim,     \* locals of simular_canal
    opt,     \* locals of otimizar_portfolio
    stats,   \* per recorded candidate, what each channel's run contributed
    ret,     \* what the top-level call returned or raised
    run,     \* 1, or 2 once the call was repeated from the same seed
    first    \* what the first of two runs returned

vars == <<pc, caller, call, rng, rng0, sim, opt, stats, ret, run, first>>

NoCall == [fn |-> "none"]
NoSim == [nome_canal |-> "", budget |-> Zero, parametros |-> <<>>, n_simulacoes |-> 0,
          i |-> 0, canal |-> <<>>, resultados |-> <<>>,
          cpc |-> Zero, ctr |-> Zero, conversao |-> Zero, ticket |-> Zero]
NoOpt == [budget_total |-> 0, parametros |-> <<>>, n_simulacoes |-> 0,
          alocacoes |-> <<>>, i |-> 0, j |-> 0,
          roi_total |-> Zero, lucro_total |-> Zero, risco_total |-> Zero,
          resultados_portfolio |-> <<>>, canais_sim |-> <<>>]
NoRet == [kind |-> "none"]

Init ==
    /\ pc = "idle"
    /\ caller = "none"
    /\ call = NoCall
    /\ rng = [seeded |-> FALSE, state |-> 0]
    /\ rng0 = rng
    /\ sim = NoSim
    /\ opt = NoOpt
    /\ stats = <<>>
    /\ ret = NoRet
    /\ run = 1
    /\ first = NoRet

\* The same program after np.random.seed(seed).
InitDet ==
    /\ pc = "idle"
    /\ caller = "none"
    /\ call = NoCall
    /\ rng \in [seeded : {TRUE}, state : 0 .. 15]
    /\ rng0 = rng
    /\ sim = NoSim
    /\ opt = NoOpt
    /\ stats = <<>>
    /\ ret = NoRet
    /\ run = 1
    /\ first = NoRet

(* --------------------------- simular_canal ---------------------------- *)
\* Entry into simular_canal(nome_canal, budget, parametros, n_simulacoes).
EnterSim(from, nome_canal, budget, parametros, n) ==
    /\ pc' = "sim_lookup"
    /\ caller' = from
    /\ sim' = [NoSim EXCEPT !.nome_canal = nome_canal, !.budget = budget,
                            !.parametros = parametros, !.n_simulacoes = n]

\* The whole table when no row matches.
LookupOrAll(parametros, nome_canal) ==
    IF FilterRows(parametros, nome_canal) = <<>> THEN parametros
    ELSE FilterRows(parametros, nome_canal)

\* The rows .iloc[0] chooses from.
Lookup(parametros, nome_canal) == FilterRows(parametros, nome_canal)

\* The result arrays before the loop.
NewResultados(n) == [k \in 1 .. n |-> ZeroDraw]

\* A direct call from the driver.
CallSim ==
    /\ pc = "idle"
    /\ \E nome \in SimNames, b \in SimBudgets, n \in 1 .. MaxDraws :
          /\ EnterSim("main", nome, RInt(b), TWide, n)
          /\ call' = [fn |-> "sim", nome_canal |-> nome, budget |-> RInt(b),
                      parametros |-> TWide, n_simulacoes |-> n]
    /\ rng0' = rng
    /\ UNCHANGED <<rng, opt, stats, ret, run, first>>

\* Line 48 on a name without a row: .iloc[0] raises IndexError.
SimLookupFail ==
    /\ pc = "sim_lookup"
    /\ Lookup(sim.parametros, sim.nome_canal) = <<>>
    /\ pc' = "error"
    /\ ret' = [kind |-> "IndexError"]
    /\ UNCHANGED <<caller, call, rng, rng0, sim, opt, stats, run, first>>

\* Lines 48-62: the channel's row, then the zeroed result arrays.
SimLookupOk ==
    /\ pc = "sim_lookup"
    /\ Lookup(sim.parametros, sim.nome_canal) # <<>>
    /\ sim' = [sim EXCEPT !.canal = Lookup(sim.parametros, sim.nome_canal)[1],
                          !.resultados = NewResultados(sim.n_simulacoes),
                          !.i = 0]
    /\ pc' = "sim_loop"
    /\ UNCHANGED <<caller, call, rng, rng0, opt, stats, ret, run, first>>

\* Line 66: the cost per click of iteration i.
SimSampleCpc ==
    /\ pc = "sim_loop"
    /\ sim.i < sim.n_simulacoes
    /\ \E us \in Variates(rng, 1) : sim' = [sim EXCEPT !.cpc = SampleCpc(sim.canal, us[1])]
    /\ rng' = RngAfter(rng, 1)
    /\ pc' = "sim_ctr"
    /\ UNCHANGED <<caller, call, rng0, opt, stats, ret, run, first>>

\* Line 67.
SimSampleCtr ==
    /\ pc = "sim_ctr"
    /\ \E us \in Variates(rng, 1) : sim' = [sim EXCEPT !.ctr = SampleCtr(sim.canal, us[1])]
    /\ rng' = RngAfter(rng, 1)
    /\ pc' = "sim_conversao"
    /\ UNCHANGED <<caller, call, rng0, opt, stats, ret, run, first>>

\* Line 68.
SimSampleConversao ==
    /\ pc = "sim_conversao"
    /\ \E us \in Variates(rng, 1) :
          sim' = [sim EXCEPT !.conversao = SampleConversao(sim.canal, us[1])]
    /\ rng' = RngAfter(rng, 1)
    /\ pc' = "sim_ticket"
    /\ UNCHANGED <<caller, call, rng0, opt, stats, ret, run, first>>

\* Line 69.
SimSampleTicket ==
    /\ pc = "sim_ticket"
    /\ \E us \in Variates(rng, 1) :
          sim' = [sim EXCEPT !.ticket = SampleTicket(sim.canal, us[1])]
    /\ rng' = RngAfter(rng, 1)
    /\ pc' = "sim_metrics"
    /\ UNCHANGED <<caller, call, rng0, opt, stats, ret, run, first>>

\* Lines 72-88: the metrics of iteration i go into the result arrays.
SimMetrics ==
    /\ pc = "sim_metrics"
    /\ sim' = [sim EXCEPT
                 !.resultados[sim.i + 1] =
                     Metrics(sim.cpc, sim.ctr, sim.conversao, sim.ticket, sim.budget),
                 !.i = sim.i + 1,
                 !.cpc = Zero, !.ctr = Zero, !.conversao = Zero, !.ticket = Zero]
    /\ pc' = "sim_loop"
    /\ UNCHANGED <<caller, call, rng, rng0, opt, stats, ret, run, first>>

\* Lines 90-93, back in the driver.
SimReturnMain ==
    /\ pc = "sim_loop"
    /\ sim.i = sim.n_simulacoes
    /\ caller = "main"
    /\ pc' = "done"
    /\ ret' = [kind |-> "sim", canal |-> sim.nome_canal, df_resultados |-> sim.resultados]
    /\ sim' = NoSim
    /\ UNCHANGED <<caller, call, rng, rng0, opt, stats, run, first>>

(* ------------------------- otimizar_portfolio ------------------------- *)
Canais(parametros) == [k \in 1 .. Len(parametros) |-> parametros[k].canal]

\* n_simulacoes handed to simular_canal at line 178 (a literal in the source).
DrawsPerRun(n_simulacoes) == InnerDraws

\* A channel is simulated only with a positive budget (line 177).
Simulated(budget_canal) == RLt(Zero, budget_canal)

\* Lines 184-186: what one simulated channel adds to the three totals.
AddRoi(roi_total, roi_medio, peso) == RAdd(roi_total, RMul(roi_medio, peso))
AddLucroWeighted(lucro_total, lucro_medio, peso) ==
    RAdd(lucro_total, RMul(lucro_medio, peso))
AddLucro(lucro_total, lucro_medio, peso) == RAdd(lucro_total, lucro_medio)
AddRisco(risco_total, risco, peso) == RAdd(risco_total, RMul(risco, peso))

\* Lines 160-167 from generator r: the allocations, then the first portfolio.
EnterOpt(r, budget_total, parametros, n_simulacoes) ==
    /\ \E us \in Variates(r, NPortfolios * Len(parametros)) :
          opt' = [NoOpt EXCEPT !.budget_total = budget_total,
                               !.parametros = parametros,
                               !.n_simulacoes = n_simulacoes,
                               !.alocacoes = Dirichlet(us, NPortfolios, Len(parametros)),
                               !.i = 1, !.j = 1]
    /\ rng' = RngAfter(r, NPortfolios * Len(parametros))
    /\ pc' = "opt_chan"
    /\ caller' = "main"
    /\ sim' = NoSim
    /\ stats' = <<>>

CallOpt ==
    /\ pc = "idle"
    /\ \E bt \in OptBudgets, params \in OptTables, ns \in NSimArgs :
          /\ EnterOpt(rng, bt, params, ns)
          /\ call' = [fn |-> "opt", budget_total |-> bt, parametros |-> params,
                      n_simulacoes |-> ns]
    /\ rng0' = rng
    /\ UNCHANGED <<ret, run, first>>

BudgetCanal == RMul(RInt(opt.budget_total), opt.alocacoes[opt.i][opt.j])

\* Lines 175-178: the next channel gets a simulation run.
OptChanSim ==
    /\ pc = "opt_chan"
    /\ opt.i <= Len(opt.alocacoes)
    /\ opt.j <= Len(opt.parametros)
    /\ Simulated(BudgetCanal)
    /\ EnterSim("opt", Canais(opt.parametros)[opt.j], BudgetCanal, opt.parametros,
                DrawsPerRun(opt.n_simulacoes))
    /\ UNCHANGED <<call, rng, rng0, opt, stats, ret, run, first>>

\* Lines 175-177: a channel without budget is passed over.
OptChanSkip ==
    /\ pc = "opt_chan"
    /\ opt.i <= Len(opt.alocacoes)
    /\ opt.j <= Len(opt.parametros)
    /\ ~Simulated(BudgetCanal)
    /\ opt' = [opt EXCEPT !.j = opt.j + 1,
                          !.canais_sim = Append(opt.canais_sim,
                              [simulated |-> FALSE, budget_canal |-> BudgetCanal,
                               n_draws |-> 0, roi_medio |-> Zero,
                               lucro_medio |-> Zero, risco |-> Zero])]
    /\ UNCHANGED <<pc, caller, call, rng, rng0, sim, stats, ret, run, first>>

\* Lines 178-186: the run is back; its means and deviation go into the totals.
SimReturnOpt ==
    /\ pc = "sim_loop"
    /\ sim.i = sim.n_simulacoes
    /\ caller = "opt"
    /\ LET roi_medio == Mean(Column(sim.resultados, "roi"))
           lucro_medio == Mean(Column(sim.resultados, "lucro"))
           risco == Std(Column(sim.resultados, "lucro"))
           peso == opt.alocacoes[opt.i][opt.j]
       IN  opt' = [opt EXCEPT !.roi_total = AddRoi(opt.roi_total, roi_medio, peso),
                              !.lucro_total = AddLucro(opt.lucro_total, lucro_medio, peso),
                              !.risco_total = AddRisco(opt.risco_total, risco, peso),
                              !.j = opt.j + 1,
                              !.canais_sim = Append(opt.canais_sim,
                                  [simulated |-> TRUE, budget_canal |-> sim.budget,
                                   n_draws |-> Len(sim.resultados), roi_medio |-> roi_medio,
                                   lucro_medio |-> lucro_medio, risco |-> risco])]
    /\ pc' = "opt_chan"
    /\ caller' = "main"
    /\ sim' = NoSim
    /\ UNCHANGED <<call, rng, rng0, stats, ret, run, first>>

\* Lines 188-195 and 170-172: the candidate is recorded, the totals start over.
OptRecord ==
    /\ pc = "opt_chan"
    /\ opt.i <= Len(opt.alocacoes)
    /\ opt.j > Len(opt.parametros)
    /\ opt' = [opt EXCEPT
                 !.resultados_portfolio = Append(opt.resultados_portfolio,
                     [portfolio |-> opt.i - 1,
                      roi_esperado |-> opt.roi_total,
                      lucro_esperado |-> opt.lucro_total,
                      risco |-> opt.risco_total,
                      sharpe_ratio |-> SharpeRatio(opt.lucro_total, opt.risco_total),
                      alocacao |-> opt.alocacoes[opt.i]]),
                 !.i = opt.i + 1, !.j = 1,
                 !.roi_total = Zero, !.lucro_total = Zero, !.risco_total = Zero,
                 !.canais_sim = <<>>]
    /\ stats' = Append(stats, opt.canais_sim)
    /\ UNCHANGED <<pc, caller, call, rng, rng0, sim, ret, run, first>>

\* Lines 197-203: the table of candidates and the two selections.
OptSelect ==
    /\ pc = "opt_chan"
    /\ opt.i > Len(opt.alocacoes)
    /\ LET df == opt.resultados_portfolio
       IN  ret' = [kind |-> "opt",
                   df_portfolios |-> df,
                   melhor_roi |-> df[IdxMax(Column(df, "roi_esperado"))],
                   melhor_sharpe |-> df[IdxMax(Column(df, "sharpe_ratio"))]]
    /\ pc' = "done"
    /\ opt' = NoOpt
    /\ UNCHANGED <<caller, call, rng, rng0, sim, stats, run, first>>

(* ------------------------------ repeat -------------------------------- *)
\* np.random.seed(seed) again, then the same call with the same arguments.
Rerun ==
    /\ pc \in {"done", "error"}
    /\ run = 1
    /\ rng.seeded
    /\ run' = 2
    /\ first' = ret
    /\ ret' = NoRet
    /\ \/ /\ call.fn = "sim"
          /\ EnterSim("main", call.nome_canal, call.budget, call.parametros,
                      call.n_simulacoes)
          /\ rng' = rng0
          /\ UNCHANGED <<opt, stats>>
       \/ /\ call.fn = "opt"
          /\ EnterOpt(rng0, call.budget_total, call.parametros, call.n_simulacoes)
    /\ UNCHANGED <<call, rng0>>

Next ==
    \/ CallSim
    \/ SimLookupFail
    \/ SimLookupOk
    \/ SimSampleCpc
    \/ SimSampleCtr
    \/ SimSampleConversao
    \/ SimSampleTicket
    \/ SimMetrics
    \/ SimReturnMain
    \/ CallOpt
    \/ OptChanSim
    \/ OptChanSkip
    \/ SimReturnOpt
    \/ OptRecord
    \/ OptSelect

Spec == Init /\ [][Next]_vars

NextDet == Next \/ Rerun

SpecDet == InitDet /\ [][NextDet]_vars

(* ------------------------------ claims -------------------------------- *)
InSim == pc \in {"sim_lookup", "sim_loop", "sim_ctr", "sim_conversao", "sim_ticket", "sim_metrics"}

\* The draws written so far, or the ones a direct call returned.
Draws == IF ret.kind = "sim" THEN ret.df_resultados ELSE SubSeq(sim.resultados, 1, sim.i)
DrawsBudget == IF ret.kind = "sim" THEN call.budget ELSE sim.budget

\* The candidates recorded so far, or the ones the optimizer returned.
Candidates == IF ret.kind = "opt" THEN ret.df_portfolios ELSE opt.resultados_portfolio

TableNames(parametros) == {parametros[k].canal : k \in 1 .. Len(parametros)}

\* C1: a direct call with a negative budget consumes no variate and returns
\* no draws (it ends in an error).
NegativeBudgetRejected ==
    (call.fn = "sim" /\ RLt(call.budget, Zero)) =>
        (rng = rng0 /\ ret.kind # "sim" /\ pc # "done")

\* C2 as stated: with one channel every allocation is [1] and the two
\* selections are the same candidate.
SingleChannelSameCandidate ==
    (ret.kind = "opt" /\ Len(call.parametros) = 1) =>
        /\ \A k \in 1 .. Len(ret.df_portfolios) : ret.df_portfolios[k].alocacao = <<RInt(1)>>
        /\ ret.melhor_roi.portfolio = ret.melhor_sharpe.portfolio

\* C2 as amended: with one channel every generated allocation is [1], and
\* each of the two selections is one of the returned candidates, all of
\* which have allocation [1].
SingleChannelAllocation ==
    (call.fn = "opt" /\ Len(call.parametros) = 1) =>
        /\ \A p \in 1 .. Len(opt.alocacoes) : opt.alocacoes[p] = <<RInt(1)>>
        /\ \A k \in 1 .. Len(Candidates) : Candidates[k].alocacao = <<RInt(1)>>
        /\ ret.kind = "opt" =>
              /\ \E k \in 1 .. Len(ret.df_portfolios) : ret.melhor_roi = ret.df_portfolios[k]
              /\ \E k \in 1 .. Len(ret.df_portfolios) : ret.melhor_sharpe = ret.df_portfolios[k]
              /\ ret.melhor_roi.alocacao = <<RInt(1)>>
              /\ ret.melhor_sharpe.alocacao = <<RInt(1)>>

SingleChannelTwoBest ==
    /\ ret.kind = "opt"
    /\ Len(call.parametros) = 1
    /\ ret.melhor_roi.portfolio # ret.melhor_sharpe.portfolio

\* C3: every simulation run the optimizer starts uses as many draws as the
\* optimizer's n_simulacoes argument says.
OptimizerGovernedByArguments ==
    /\ (caller = "opt" /\ InSim) => sim.n_simulacoes = opt.n_simulacoes
    /\ \A p \in 1 .. Len(stats) : \A j \in 1 .. Len(stats[p]) :
          stats[p][j].simulated => stats[p][j].n_draws = call.n_simulacoes

\* C4: every draw has 0.001 <= ctr <= 1, 0.001 <= conversion rate <= 1,
\* cpc >= 0.01 and ticket >= 10.
ClampingInvariant ==
    \A k \in 1 .. Len(Draws) :
        LET d == Draws[k]
        IN  /\ RLe(Rat(1, 1000), d.ctr) /\ RLe(d.ctr, RInt(1))
            /\ RLe(Rat(1, 1000), d.taxa_conversao) /\ RLe(d.taxa_conversao, RInt(1))
            /\ RLe(Rat(1, 100), d.cpc)
            /\ RLe(RInt(10), d.ticket_medio)

ClampedDrawsReturned ==
    /\ ret.kind = "sim"
    /\ \E k1, k2 \in 1 .. Len(ret.df_resultados) :
          /\ ret.df_resultados[k1].cpc = Rat(1, 100)
          /\ ret.df_resultados[k1].ctr = Rat(1, 1000)
          /\ ret.df_resultados[k2].ctr = RInt(1)
          /\ ret.df_resultados[k2].cpc = Rat(3, 2)

\* C5: with budget >= 0 every draw has clicks = floor(budget / cpc),
\* conversions = floor(clicks * conversion rate), revenue = conversions *
\* ticket, profit = revenue - budget, and roi = 100 * profit / budget for a
\* positive budget, all of them 0 for budget 0.
DerivationConsistency ==
    RLe(Zero, DrawsBudget) =>
        \A k \in 1 .. Len(Draws) :
            LET d == Draws[k]
                b == DrawsBudget
            IN  /\ d.cliques >= 0
                /\ RLe(RMul(RInt(d.cliques), d.cpc), b)
                /\ RLt(b, RMul(RInt(d.cliques + 1), d.cpc))
                /\ d.conversoes >= 0
                /\ RLe(RInt(d.conversoes), RMul(RInt(d.cliques), d.taxa_conversao))
                /\ RLt(RMul(RInt(d.cliques), d.taxa_conversao), RInt(d.conversoes + 1))
                /\ d.receita = RMul(RInt(d.conversoes), d.ticket_medio)
                /\ RAdd(d.lucro, b) = d.receita
                /\ RLt(Zero, b) => RMul(d.roi, b) = RMul(RInt(100), d.lucro)
                /\ b = Zero =>
                      /\ d.roi = Zero /\ d.cliques = 0 /\ d.conversoes = 0
                      /\ d.receita = Zero /\ d.lucro = Zero

DerivedDrawReturned ==
    /\ ret.kind = "sim"
    /\ RLt(Zero, call.budget)
    /\ \E k \in 1 .. Len(ret.df_resultados) :
          LET d == ret.df_resultados[k]
          IN  /\ d.conversoes > 0
              /\ RLt(RMul(RInt(d.cliques), d.cpc), call.budget)
              /\ RLt(RInt(d.conversoes), RMul(RInt(d.cliques), d.taxa_conversao))

\* Position of the first maximum of column f, stated without a scan.
IsFirstMax(df, f, k) ==
    /\ \A m \in 1 .. Len(df) : RLe(df[m][f], df[k][f])
    /\ \A m \in 1 .. k - 1 : RLt(df[m][f], df[k][f])

\* C6: melhor_roi is the first candidate with the largest roi_esperado and
\* melhor_sharpe the first candidate with the largest sharpe_ratio.
FirstMaxSelected ==
    ret.kind = "opt" =>
        /\ \E k \in 1 .. Len(ret.df_portfolios) :
              /\ ret.melhor_roi = ret.df_portfolios[k]
              /\ ret.melhor_roi.portfolio = k - 1
              /\ IsFirstMax(ret.df_portfolios, "roi_esperado", k)
        /\ \E k \in 1 .. Len(ret.df_portfolios) :
              /\ ret.melhor_sharpe = ret.df_portfolios[k]
              /\ ret.melhor_sharpe.portfolio = k - 1
              /\ IsFirstMax(ret.df_portfolios, "sharpe_ratio", k)

TieResolvedToFirst ==
    /\ ret.kind = "opt"
    /\ call.budget_total > 0
    /\ ret.melhor_roi.portfolio = 0
    /\ ret.melhor_sharpe.portfolio = 0
    /\ \E k \in 2 .. Len(ret.df_portfolios) :
          /\ ret.df_portfolios[k].roi_esperado = ret.melhor_roi.roi_esperado
          /\ ret.df_portfolios[k].sharpe_ratio = ret.melhor_sharpe.sharpe_ratio
          /\ RLt(Zero, ret.df_portfolios[k].sharpe_ratio)

\* C7: every recorded candidate has sharpe_ratio = lucro_esperado / risco
\* when risco > 0 and sharpe_ratio = 0 when risco = 0; none is undefined.
SharpeDegeneracy ==
    \A k \in 1 .. Len(Candidates) :
        LET c == Candidates[k]
        IN  /\ c.sharpe_ratio # Undefined
            /\ c.sharpe_ratio.d > 0
            /\ RLe(Zero, c.risco)
            /\ RLt(Zero, c.risco) => RMul(c.sharpe_ratio, c.risco) = c.lucro_esperado
            /\ c.risco = Zero => c.sharpe_ratio = Zero

ZeroRiskCandidate ==
    /\ ret.kind = "opt"
    /\ call.budget_total > 0
    /\ \E k1, k2 \in 1 .. Len(ret.df_portfolios) :
          /\ ret.df_portfolios[k1].risco = Zero
          /\ ret.df_portfolios[k1].lucro_esperado # Zero
          /\ RLt(Zero, ret.df_portfolios[k2].risco)

\* C8: a direct call whose channel name has no row in the table raises
\* IndexError at once: no variate is consumed and no draw is returned.
InvalidChannelFails ==
    (call.fn = "sim" /\ call.nome_canal \notin TableNames(call.parametros)) =>
        /\ rng = rng0
        /\ pc \in {"sim_lookup", "error"}
        /\ pc = "error" => ret.kind = "IndexError"
        /\ pc = "sim_lookup" => ret.kind = "none"
        /\ sim.resultados = <<>>

InvalidChannelRaised ==
    /\ pc = "error"
    /\ ret.kind = "IndexError"
    /\ call.fn = "sim"
    /\ call.nome_canal \notin TableNames(call.parametros)

\* C9: a call repeated with the same arguments from the same seed returns
\* what the first run returned.
DeterminismUnderSeed ==
    (run = 2 /\ pc \in {"done", "error"}) => ret = first

BothRunsReturned ==
    /\ run = 2
    /\ pc = "done"
    /\ ret.kind = "opt"
    /\ call.budget_total > 0
    /\ Len(call.parametros) = 2
    /\ first = ret

\* Sum of term[j] over the simulated channels j of a candidate's log.
SumSimulated(log, term) ==
    SumSeq([j \in 1 .. Len(log) |-> IF log[j].simulated THEN term[j] ELSE Zero])

\* C10: every recorded candidate has roi_esperado = sum of roi_medio *
\* weight, lucro_esperado = sum of lucro_medio, risco = sum of risco *
\* weight, over exactly the channels with budget_total * weight > 0.
PerCandidateAccumulation ==
    /\ Len(stats) = Len(Candidates)
    /\ \A p \in 1 .. Len(Candidates) :
          LET c == Candidates[p]
              log == stats[p]
              w == c.alocacao
          IN  /\ Len(log) = Len(w)
              /\ \A j \in 1 .. Len(log) :
                    /\ log[j].budget_canal = RMul(RInt(call.budget_total), w[j])
                    /\ log[j].simulated <=> RLt(Zero, RMul(RInt(call.budget_total), w[j]))
              /\ c.roi_esperado =
                    SumSimulated(log, [j \in 1 .. Len(log) |-> RMul(log[j].roi_medio, w[j])])
              /\ c.lucro_esperado =
                    SumSimulated(log, [j \in 1 .. Len(log) |-> log[j].lucro_medio])
              /\ c.risco =
                    SumSimulated(log, [j \in 1 .. Len(log) |-> RMul(log[j].risco, w[j])])

TwoChannelsAccumulated ==
    /\ ret.kind = "opt"
    /\ call.budget_total > 0
    /\ \E p \in 1 .. Len(ret.df_portfolios) :
          /\ Len(stats[p]) = 2
          /\ stats[p][1].simulated /\ stats[p][2].simulated
          /\ RLt(Zero, stats[p][1].risco)
          /\ stats[p][1].lucro_medio # Zero /\ stats[p][2].lucro_medio # Zero
          /\ ret.df_portfolios[p].alocacao[1] # ret.df_portfolios[p].alocacao[2]

====
